---- MODULE Spec2Model ----
(***************************************************************************)
(* One auction replica (main.go): the package-level Auction value, its     *)
(* sync.RWMutex, the HTTP handlers handleBid and handleQuery running on    *)
(* concurrently scheduled tasks, and the endAuction timer goroutine.       *)
(*                                                                         *)
(* Every handler is modelled statement by statement from the point where   *)
(* it touches the shared Auction value, so that the mutual exclusion the   *)
(* claims rely on is a consequence of the lock and not of the modelling.   *)
(*                                                                         *)
(* Three specifications share the module:                                  *)
(*   Spec, FairSpec   one replica with concurrent handlers and its timer;  *)
(*   SeqSpec          one replica handling a run of bids one by one;       *)
(*   CoordSpec, FairCoordSpec                                              *)
(*                    the coordinator (unnamed/part_000) calling bid and   *)
(*                    query over its two replicas through the network.     *)
(* The steps of each leave the variables of the others unchanged.          *)
(***************************************************************************)
EXTENDS Integers, FiniteSets, Sequences, TLC

\* ---------------------------------------------------------------- bounds
NumBidTasks == 2      \* concurrently served POST /bid requests
NumQueryTasks == 2    \* concurrently served GET /query requests
MaxAmount == 2        \* largest whole amount a request carries
Denom == 2            \* wire numbers are multiples of 1/Denom
MaxSeqLen == 3           \* longest run of bids that SeqSpec follows

BidTasks == 1..NumBidTasks
QueryTasks == 1..NumQueryTasks
Names == {"alice", "bob"}

\* A JSON number n/Denom is represented by the integer n.
WireAmounts == 0..(MaxAmount * Denom + (Denom - 1))

\* Go's int(float64): truncation toward zero.
Trunc(n) == IF n >= 0 THEN n \div Denom ELSE -((-n) \div Denom)

\* ------------------------------------------------------ lock owner names
NoTask == [kind |-> "none", id |-> 0]
BidTask(t) == [kind |-> "bid", id |-> t]
TimerTask == [kind |-> "timer", id |-> 0]

\* ------------------------------------------------------------- requests
\* A request as the handler sees it: the HTTP method, whether the body is
\* decodable JSON, and for the fields name and amount whether the type
\* assertion succeeds and, if so, the value.
ValidBidBodies ==
  { [decodable |-> TRUE, nameOk |-> TRUE, name |-> n, amountOk |-> TRUE, amount |-> a] :
      n \in Names, a \in WireAmounts }

BadBidBodies ==
  { [decodable |-> FALSE, nameOk |-> FALSE, name |-> "", amountOk |-> FALSE, amount |-> 0],
    [decodable |-> TRUE, nameOk |-> FALSE, name |-> "", amountOk |-> TRUE, amount |-> Denom],
    [decodable |-> TRUE, nameOk |-> TRUE, name |-> "alice", amountOk |-> FALSE, amount |-> 0] }

BidRequests ==
  { [method |-> m, body |-> b] : m \in {"POST"}, b \in ValidBidBodies \cup BadBidBodies }
    \cup { [method |-> "GET", body |-> b] : b \in BadBidBodies }

QueryMethods == {"GET", "POST"}

NoLocals == [name |-> "", amount |-> 0]
NoResp == [code |-> 0, outcome |-> ""]
NoQResp == [code |-> 0, status |-> "", highest_bid |-> 0, highest_bidder |-> "",
            time_remaining |-> 0, hasWinner |-> FALSE, winner |-> ""]
NoSnap == [status |-> "", highestBid |-> 0, highestBidder |-> "",
           bidders |-> [x \in {} |-> 0]]

\* map[string]int assignment m[k] = v
Put(m, k, v) == [x \in (DOMAIN m) \cup {k} |-> IF x = k THEN v ELSE m[x]]

Max(a, b) == IF a >= b THEN a ELSE b

VARIABLES
  status,         \* auction.status
  highestBid,     \* auction.highestBid
  highestBidder,  \* auction.highestBidder
  bidders,        \* auction.bidders
  mutexW,         \* auction.mutex: the task that holds or has announced the write lock
  readers,        \* auction.mutex: the tasks that hold the read lock
  pcB,            \* handleBid: position of each bid task
  locB,           \* handleBid: the locals name and amount of each bid task
  respB,          \* handleBid: the response written by each bid task
  pcQ,            \* handleQuery: position of each query task
  respQ,          \* handleQuery: the response written by each query task
  pcT,            \* endAuction: position of the timer goroutine
  pre,            \* history: the auction value when the write lock was last acquired
  maxWinAll,      \* history: largest amount that exceeded the highestBid it met
  maxWinOngoing,  \* history: the same, among bids that met status "ongoing"
  lastOk,         \* history: per bidder, the amount of its last successful bid
  late,           \* history: the bid inside acquired the lock after the timer woke
  lateWin         \* history: the auction is open and highestBid was set by a bid
                  \* that acquired the lock after the timer woke

\* A run of bids handled one after the other by one replica (SeqSpec).
VARIABLES
  seqRep,         \* the auction value of the replica
  seqBase,        \* history: highestBid when the run started
  seqLog          \* history: per bid of the run, in lock order, the amount, the
                  \* status it met and the outcome it was answered

seqVars == <<seqRep, seqBase, seqLog>>

\* The coordinator (unnamed/part_000) in front of its replicas (CoordSpec).
VARIABLES
  reps,           \* the auction value of each replica of c.replicas
  pcC,            \* position of the console loop: "idle", in bid, in query, or
                  \* "blocked" in an http.Post that never returns
  idx,            \* the position of the range loop in c.replicas
  cur,            \* the call in progress or last made: kind, name, amount
  clog,           \* c.logger: the events written since the call started
  trace,          \* history: the replicas contacted by the call, in order,
                  \* with what each contact came to
  flight,         \* the request the call is waiting on: whether the replica
                  \* has handled it, and the answer it then wrote
  everFailed,     \* history: some bid of some call was not answered
  split           \* history: some call was rejected by one replica and
                  \* accepted by another

coordVars == <<reps, pcC, idx, cur, clog, trace, flight, everFailed, split>>

auctionVars == <<status, highestBid, highestBidder, bidders>>
vars == <<status, highestBid, highestBidder, bidders, mutexW, readers,
          pcB, locB, respB, pcQ, respQ, pcT, pre, maxWinAll, maxWinOngoing, lastOk,
          late, lateWin>>

bidVars == <<pcB, locB, respB>>
queryVars == <<pcQ, respQ>>
histVars == <<pre, maxWinAll, maxWinOngoing, lastOk, late, lateWin>>

\* What the steps of one specification of this module leave alone: the
\* variables of the other ones.
otherVars == <<seqVars, coordVars>>

Snapshot == [status |-> status, highestBid |-> highestBid,
             highestBidder |-> highestBidder, bidders |-> bidders]

\* The replica of SeqSpec starts as the auction value of main.go does.
SeqInit ==
  /\ seqRep = [status |-> "ongoing", highestBid |-> 0, highestBidder |-> "",
               bidders |-> [x \in {} |-> 0]]
  /\ seqBase = 0
  /\ seqLog = <<>>

NumReplicas == 2
Replicas == 1..NumReplicas

NoCall == [kind |-> "", name |-> "", amount |-> 0]

\* No request is with a replica, or the one that is has not been handled.
NoFlight == [state |-> "none", outcome |-> "", hb |-> 0, body |-> [none |-> TRUE]]

\* Every replica of the coordinator starts as the auction value of main.go
\* does; the coordinator starts at its prompt.
CoordInit ==
  /\ reps = [i \in Replicas |->
              [status |-> "ongoing", highestBid |-> 0, highestBidder |-> "",
               bidders |-> [x \in {} |-> 0]]]
  /\ pcC = "idle"
  /\ idx = 1
  /\ cur = NoCall
  /\ clog = <<>>
  /\ trace = <<>>
  /\ flight = NoFlight
  /\ everFailed = FALSE
  /\ split = FALSE

Init ==
  /\ status = "ongoing"
  /\ highestBid = 0
  /\ highestBidder = ""
  /\ bidders = [x \in {} |-> 0]
  /\ mutexW = NoTask
  /\ readers = {}
  /\ pcB = [t \in BidTasks |-> "idle"]
  /\ locB = [t \in BidTasks |-> NoLocals]
  /\ respB = [t \in BidTasks |-> NoResp]
  /\ pcQ = [q \in QueryTasks |-> "idle"]
  /\ respQ = [q \in QueryTasks |-> NoQResp]
  /\ pcT = "sleeping"
  /\ pre = NoSnap
  /\ maxWinAll = 0
  /\ maxWinOngoing = 0
  /\ lastOk = [x \in {} |-> 0]
  /\ late = FALSE
  /\ lateWin = FALSE
  /\ SeqInit
  /\ CoordInit

\* ------------------------------------------------------------ handleBid
\* Lines 42-63: method check, body decoding, type assertions. Nothing shared
\* is touched; a request that fails here is answered at once.
handleBidRecv(t, r) ==
  /\ pcB[t] = "idle"
  /\ UNCHANGED otherVars
  /\ IF r.method # "POST"
       THEN /\ respB' = [respB EXCEPT ![t] = [code |-> 405, outcome |-> "Invalid method"]]
            /\ pcB' = [pcB EXCEPT ![t] = "replied"]
            /\ UNCHANGED locB
     ELSE IF ~r.body.decodable
       THEN /\ respB' = [respB EXCEPT ![t] = [code |-> 400, outcome |-> "Invalid request"]]
            /\ pcB' = [pcB EXCEPT ![t] = "replied"]
            /\ UNCHANGED locB
     ELSE IF ~r.body.nameOk \/ ~r.body.amountOk
       THEN /\ respB' = [respB EXCEPT ![t] = [code |-> 400, outcome |-> "Invalid name or amount"]]
            /\ pcB' = [pcB EXCEPT ![t] = "replied"]
            /\ UNCHANGED locB
     ELSE /\ locB' = [locB EXCEPT ![t] = [name |-> r.body.name, amount |-> r.body.amount]]
          /\ pcB' = [pcB EXCEPT ![t] = "lock"]
          /\ UNCHANGED respB
  /\ UNCHANGED <<auctionVars, mutexW, readers, queryVars, pcT, histVars>>

\* The early returns of lines 44, 53 and 62.
handleBidReturn(t) ==
  /\ pcB[t] = "replied"
  /\ UNCHANGED otherVars
  /\ pcB' = [pcB EXCEPT ![t] = "idle"]
  /\ respB' = [respB EXCEPT ![t] = NoResp]
  /\ UNCHANGED <<auctionVars, mutexW, readers, locB, queryVars, pcT, histVars>>

\* Faulty variant of handleBidLock: the write lock is taken without waiting
\* for the writer that holds it.
handleBidLock_NotExclusive(t) ==
  /\ pcB[t] = "lock"
  /\ UNCHANGED otherVars
  /\ mutexW' = BidTask(t)
  /\ pcB' = [pcB EXCEPT ![t] = "lockwait"]
  /\ UNCHANGED <<auctionVars, readers, locB, respB, queryVars, pcT, histVars>>

\* Line 65, first half of RWMutex.Lock: the writer excludes other writers
\* and announces itself, which keeps new readers out.
handleBidLock(t) ==
  /\ pcB[t] = "lock"
  /\ UNCHANGED otherVars
  /\ mutexW = NoTask
  /\ mutexW' = BidTask(t)
  /\ pcB' = [pcB EXCEPT ![t] = "lockwait"]
  /\ UNCHANGED <<auctionVars, readers, locB, respB, queryVars, pcT, histVars>>

\* Faulty variant of handleBidLocked: the writer does not wait for the
\* readers to leave.
handleBidLocked_NoDrain(t) ==
  /\ pcB[t] = "lockwait"
  /\ UNCHANGED otherVars
  /\ pcB' = [pcB EXCEPT ![t] = "checkEnded"]
  /\ pre' = Snapshot
  /\ maxWinAll' = IF Trunc(locB[t].amount) > highestBid
                    THEN Max(maxWinAll, Trunc(locB[t].amount)) ELSE maxWinAll
  /\ maxWinOngoing' = IF status = "ongoing" /\ Trunc(locB[t].amount) > highestBid
                        THEN Max(maxWinOngoing, Trunc(locB[t].amount)) ELSE maxWinOngoing
  /\ late' = (pcT # "sleeping")
  /\ UNCHANGED <<auctionVars, mutexW, readers, locB, respB, queryVars, pcT, lastOk,
                 lateWin>>

\* Line 65, second half of RWMutex.Lock: wait until the readers have left.
handleBidLocked(t) ==
  /\ pcB[t] = "lockwait"
  /\ UNCHANGED otherVars
  /\ readers = {}
  /\ pcB' = [pcB EXCEPT ![t] = "checkEnded"]
  /\ pre' = Snapshot
  /\ maxWinAll' = IF Trunc(locB[t].amount) > highestBid
                    THEN Max(maxWinAll, Trunc(locB[t].amount)) ELSE maxWinAll
  /\ maxWinOngoing' = IF status = "ongoing" /\ Trunc(locB[t].amount) > highestBid
                        THEN Max(maxWinOngoing, Trunc(locB[t].amount)) ELSE maxWinOngoing
  /\ late' = (pcT # "sleeping")
  /\ UNCHANGED <<auctionVars, mutexW, readers, locB, respB, queryVars, pcT, lastOk,
                 lateWin>>

\* Faulty variant of handleBidCheckEnded: the status check is missing.
handleBidCheckEnded_NoCheck(t) ==
  /\ pcB[t] = "checkEnded"
  /\ UNCHANGED otherVars
  /\ pcB' = [pcB EXCEPT ![t] = "register"]
  /\ UNCHANGED <<auctionVars, mutexW, readers, locB, respB, queryVars, pcT, histVars>>

\* Faulty variant of handleBidCheckEnded: the handler closes the auction
\* itself when it finds that the duration has elapsed.
handleBidCheckEnded_ClosesIfExpired(t) ==
  /\ pcB[t] = "checkEnded"
  /\ UNCHANGED otherVars
  /\ IF status = "ended" \/ pcT # "sleeping"
       THEN /\ status' = "ended"
            /\ respB' = [respB EXCEPT ![t] = [code |-> 200, outcome |-> "auction ended"]]
            /\ pcB' = [pcB EXCEPT ![t] = "unlock"]
       ELSE /\ pcB' = [pcB EXCEPT ![t] = "register"]
            /\ UNCHANGED <<status, respB>>
  /\ UNCHANGED <<highestBid, highestBidder, bidders, mutexW, readers, locB,
                 queryVars, pcT, histVars>>

\* Faulty variant of handleBidCheckEnded: a bid is also refused when the
\* duration has elapsed, whatever the status.
handleBidCheckEnded_RefusesIfExpired(t) ==
  /\ pcB[t] = "checkEnded"
  /\ UNCHANGED otherVars
  /\ IF status = "ended" \/ pcT # "sleeping"
       THEN /\ respB' = [respB EXCEPT ![t] = [code |-> 200, outcome |-> "auction ended"]]
            /\ pcB' = [pcB EXCEPT ![t] = "unlock"]
       ELSE /\ pcB' = [pcB EXCEPT ![t] = "register"]
            /\ UNCHANGED respB
  /\ UNCHANGED <<auctionVars, mutexW, readers, locB, queryVars, pcT, histVars>>

\* Lines 69-75.
handleBidCheckEnded(t) ==
  /\ pcB[t] = "checkEnded"
  /\ UNCHANGED otherVars
  /\ IF status = "ended"
       THEN /\ respB' = [respB EXCEPT ![t] = [code |-> 200, outcome |-> "auction ended"]]
            /\ pcB' = [pcB EXCEPT ![t] = "unlock"]
       ELSE /\ pcB' = [pcB EXCEPT ![t] = "register"]
            /\ UNCHANGED respB
  /\ UNCHANGED <<auctionVars, mutexW, readers, locB, queryVars, pcT, histVars>>

\* Faulty variant of handleBidRegister: the entry is set to 0 without the
\* test for an existing one.
\* Lines 78-80.
handleBidRegister(t) ==
  /\ pcB[t] = "register"
  /\ UNCHANGED otherVars
  /\ bidders' = IF locB[t].name \in DOMAIN bidders
                  THEN bidders ELSE Put(bidders, locB[t].name, 0)
  /\ pcB' = [pcB EXCEPT ![t] = "compare"]
  /\ UNCHANGED <<status, highestBid, highestBidder, mutexW, readers, locB, respB,
                 queryVars, pcT, histVars>>

\* Faulty variant of handleBidCompare: < for <=, an equal bid is accepted.
\* Lines 83-89.
handleBidCompare(t) ==
  /\ pcB[t] = "compare"
  /\ UNCHANGED otherVars
  /\ IF Trunc(locB[t].amount) <= highestBid
       THEN /\ respB' = [respB EXCEPT ![t] = [code |-> 200, outcome |-> "fail"]]
            /\ pcB' = [pcB EXCEPT ![t] = "unlock"]
       ELSE /\ pcB' = [pcB EXCEPT ![t] = "setBid"]
            /\ UNCHANGED respB
  /\ UNCHANGED <<auctionVars, mutexW, readers, locB, queryVars, pcT, histVars>>

\* Line 92.
handleBidSetBid(t) ==
  /\ pcB[t] = "setBid"
  /\ UNCHANGED otherVars
  /\ highestBid' = Trunc(locB[t].amount)
  /\ pcB' = [pcB EXCEPT ![t] = "setBidder"]
  /\ UNCHANGED <<status, highestBidder, bidders, mutexW, readers, locB, respB,
                 queryVars, pcT, histVars>>

\* Faulty variant of handleBidSetBidder: line 93 is missing.
handleBidSetBidder_Missing(t) ==
  /\ pcB[t] = "setBidder"
  /\ UNCHANGED otherVars
  /\ pcB' = [pcB EXCEPT ![t] = "setMap"]
  /\ UNCHANGED <<auctionVars, mutexW, readers, locB, respB, queryVars, pcT, histVars>>

\* Line 93.
handleBidSetBidder(t) ==
  /\ pcB[t] = "setBidder"
  /\ UNCHANGED otherVars
  /\ highestBidder' = locB[t].name
  /\ pcB' = [pcB EXCEPT ![t] = "setMap"]
  /\ UNCHANGED <<status, highestBid, bidders, mutexW, readers, locB, respB,
                 queryVars, pcT, histVars>>

\* Lines 96-101: the bidder's last bid and the success response.
handleBidSetMap(t) ==
  /\ pcB[t] = "setMap"
  /\ UNCHANGED otherVars
  /\ bidders' = Put(bidders, locB[t].name, Trunc(locB[t].amount))
  /\ respB' = [respB EXCEPT ![t] = [code |-> 200, outcome |-> "success"]]
  /\ lastOk' = Put(lastOk, locB[t].name, Trunc(locB[t].amount))
  /\ lateWin' = late
  /\ pcB' = [pcB EXCEPT ![t] = "unlock"]
  /\ UNCHANGED <<status, highestBid, highestBidder, mutexW, readers, locB,
                 queryVars, pcT, pre, maxWinAll, maxWinOngoing, late>>

\* Line 66: the deferred Unlock, run when the handler returns.
handleBidUnlock(t) ==
  /\ pcB[t] = "unlock"
  /\ UNCHANGED otherVars
  /\ mutexW' = NoTask
  /\ pcB' = [pcB EXCEPT ![t] = "idle"]
  /\ locB' = [locB EXCEPT ![t] = NoLocals]
  /\ respB' = [respB EXCEPT ![t] = NoResp]
  /\ pre' = NoSnap
  /\ late' = FALSE
  /\ UNCHANGED <<auctionVars, readers, queryVars, pcT, maxWinAll, maxWinOngoing, lastOk,
                 lateWin>>

\* ---------------------------------------------------------- handleQuery
\* Lines 105-108.
handleQueryRecv(q, m) ==
  /\ pcQ[q] = "idle"
  /\ UNCHANGED otherVars
  /\ IF m # "GET"
       THEN /\ respQ' = [respQ EXCEPT ![q] = [NoQResp EXCEPT !.code = 405]]
            /\ pcQ' = [pcQ EXCEPT ![q] = "replied"]
       ELSE /\ pcQ' = [pcQ EXCEPT ![q] = "rlock"]
            /\ UNCHANGED respQ
  /\ UNCHANGED <<auctionVars, mutexW, readers, bidVars, pcT, histVars>>

\* The early return of line 107.
handleQueryReturn(q) ==
  /\ pcQ[q] = "replied"
  /\ UNCHANGED otherVars
  /\ pcQ' = [pcQ EXCEPT ![q] = "idle"]
  /\ respQ' = [respQ EXCEPT ![q] = NoQResp]
  /\ UNCHANGED <<auctionVars, mutexW, readers, bidVars, pcT, histVars>>

\* Faulty variant of handleQueryRLock: the handler reads without regard to
\* the writer.
handleQueryRLock_IgnoresWriter(q) ==
  /\ pcQ[q] = "rlock"
  /\ UNCHANGED otherVars
  /\ readers' = readers \cup {q}
  /\ pcQ' = [pcQ EXCEPT ![q] = "rlocked"]
  /\ UNCHANGED <<auctionVars, mutexW, bidVars, respQ, pcT, histVars>>

\* Line 110, RWMutex.RLock: blocks while a writer holds or has announced
\* the write lock.
handleQueryRLock(q) ==
  /\ pcQ[q] = "rlock"
  /\ UNCHANGED otherVars
  /\ mutexW = NoTask
  /\ readers' = readers \cup {q}
  /\ pcQ' = [pcQ EXCEPT ![q] = "rlocked"]
  /\ UNCHANGED <<auctionVars, mutexW, bidVars, respQ, pcT, histVars>>

\* auction.duration in whole seconds (line 32).
DurationSec == 100

\* int(time.Since(auction.startTime).Seconds()) as a handler can read it.
\* startTime is taken before the timer starts to sleep, so the sleep ends
\* only when the duration has elapsed, and the duration may have elapsed
\* while the timer still sleeps.
ElapsedSec ==
  IF pcT = "sleeping" THEN {0, DurationSec} ELSE {DurationSec, DurationSec + 1}

\* Faulty variant of handleQuerySnapshot: the winner is reported whatever
\* the status.
handleQuerySnapshot_WinnerAlways(q) ==
  /\ pcQ[q] = "rlocked"
  /\ UNCHANGED otherVars
  /\ \E e \in ElapsedSec :
       respQ' = [respQ EXCEPT ![q] =
         [code |-> 200, status |-> status, highest_bid |-> highestBid,
          highest_bidder |-> highestBidder,
          time_remaining |-> DurationSec - e,
          hasWinner |-> TRUE,
          winner |-> highestBidder]]
  /\ pcQ' = [pcQ EXCEPT ![q] = "runlock"]
  /\ UNCHANGED <<auctionVars, mutexW, readers, bidVars, pcT, histVars>>

\* Lines 113-126: the response map, with winner added when ended.
handleQuerySnapshot(q) ==
  /\ pcQ[q] = "rlocked"
  /\ UNCHANGED otherVars
  /\ \E e \in ElapsedSec :
       respQ' = [respQ EXCEPT ![q] =
         [code |-> 200, status |-> status, highest_bid |-> highestBid,
          highest_bidder |-> highestBidder,
          time_remaining |-> DurationSec - e,
          hasWinner |-> (status = "ended"),
          winner |-> IF status = "ended" THEN highestBidder ELSE ""]]
  /\ pcQ' = [pcQ EXCEPT ![q] = "runlock"]
  /\ UNCHANGED <<auctionVars, mutexW, readers, bidVars, pcT, histVars>>

\* Line 111: the deferred RUnlock.
handleQueryRUnlock(q) ==
  /\ pcQ[q] = "runlock"
  /\ UNCHANGED otherVars
  /\ readers' = readers \ {q}
  /\ pcQ' = [pcQ EXCEPT ![q] = "idle"]
  /\ respQ' = [respQ EXCEPT ![q] = NoQResp]
  /\ UNCHANGED <<auctionVars, mutexW, bidVars, pcT, histVars>>

\* ----------------------------------------------------------- endAuction
\* Line 131: time.Sleep(auction.duration) returns.
endAuctionWake ==
  /\ pcT = "sleeping"
  /\ UNCHANGED otherVars
  /\ pcT' = "lock"
  /\ UNCHANGED <<auctionVars, mutexW, readers, bidVars, queryVars, histVars>>

\* Faulty variant of endAuctionLock: TryLock for Lock, the timer gives up
\* when the lock is taken.
endAuctionLock_TryOnce ==
  /\ pcT = "lock"
  /\ UNCHANGED otherVars
  /\ IF mutexW = NoTask
       THEN mutexW' = TimerTask /\ pcT' = "lockwait"
       ELSE pcT' = "done" /\ UNCHANGED mutexW
  /\ UNCHANGED <<auctionVars, readers, bidVars, queryVars, histVars>>

\* Line 132, first half of RWMutex.Lock.
endAuctionLock ==
  /\ pcT = "lock"
  /\ UNCHANGED otherVars
  /\ mutexW = NoTask
  /\ mutexW' = TimerTask
  /\ pcT' = "lockwait"
  /\ UNCHANGED <<auctionVars, readers, bidVars, queryVars, histVars>>

\* Line 132, second half of RWMutex.Lock.
endAuctionLocked ==
  /\ pcT = "lockwait"
  /\ UNCHANGED otherVars
  /\ readers = {}
  /\ pcT' = "set"
  /\ pre' = Snapshot
  /\ UNCHANGED <<auctionVars, mutexW, readers, bidVars, queryVars,
                 maxWinAll, maxWinOngoing, lastOk, late, lateWin>>

\* Faulty variant of CloseStep: the status is flipped.
CloseStep_Toggles(s) ==
  [s EXCEPT !.status = IF s.status = "ongoing" THEN "ended" ELSE "ongoing"]

\* Line 134 as a function of the auction value.
CloseStep(s) == [s EXCEPT !.status = "ended"]

\* Lines 134-135.
endAuctionSet ==
  /\ pcT = "set"
  /\ UNCHANGED otherVars
  /\ status' = CloseStep(Snapshot).status
  /\ highestBid' = CloseStep(Snapshot).highestBid
  /\ highestBidder' = CloseStep(Snapshot).highestBidder
  /\ bidders' = CloseStep(Snapshot).bidders
  /\ pcT' = "unlock"
  /\ lateWin' = FALSE
  /\ UNCHANGED <<mutexW, readers, bidVars, queryVars, pre, maxWinAll, maxWinOngoing,
                 lastOk, late>>

\* Line 133: the deferred Unlock; the goroutine ends.
endAuctionUnlock ==
  /\ pcT = "unlock"
  /\ UNCHANGED otherVars
  /\ mutexW' = NoTask
  /\ pcT' = "done"
  /\ pre' = NoSnap
  /\ UNCHANGED <<auctionVars, readers, bidVars, queryVars,
                 maxWinAll, maxWinOngoing, lastOk, late, lateWin>>

\* ------------------------------------------------------------------ Next
\* The steps of a bid handler after the request has been read.
BidProgress(t) ==
  \/ handleBidReturn(t)
  \/ handleBidLock(t)
  \/ handleBidLocked(t)
  \/ handleBidCheckEnded(t)
  \/ handleBidRegister(t)
  \/ handleBidCompare(t)
  \/ handleBidSetBid(t)
  \/ handleBidSetBidder(t)
  \/ handleBidSetMap(t)
  \/ handleBidUnlock(t)

BidStep(t) ==
  \/ \E r \in BidRequests : handleBidRecv(t, r)
  \/ BidProgress(t)

\* The steps of a query handler after the request has been read.
QueryProgress(q) ==
  \/ handleQueryReturn(q)
  \/ handleQueryRLock(q)
  \/ handleQuerySnapshot(q)
  \/ handleQueryRUnlock(q)

QueryStep(q) ==
  \/ \E m \in QueryMethods : handleQueryRecv(q, m)
  \/ QueryProgress(q)

TimerStep ==
  \/ endAuctionWake
  \/ endAuctionLock
  \/ endAuctionLocked
  \/ endAuctionSet
  \/ endAuctionUnlock

Next ==
  \/ \E t \in BidTasks : BidStep(t)
  \/ \E q \in QueryTasks : QueryStep(q)
  \/ TimerStep

Spec == Init /\ [][Next]_vars

\* ------------------------------------------------------------ fair runs
\* The termination of the timer does not depend on the data of the bids, so
\* the fair specification draws its bids from a few representative requests.
LiveBidRequests ==
  { [method |-> "POST",
     body |-> [decodable |-> TRUE, nameOk |-> TRUE, name |-> "alice",
               amountOk |-> TRUE, amount |-> MaxAmount * Denom]],
    [method |-> "POST",
     body |-> [decodable |-> TRUE, nameOk |-> TRUE, name |-> "bob",
               amountOk |-> TRUE, amount |-> Denom]],
    [method |-> "GET",
     body |-> [decodable |-> FALSE, nameOk |-> FALSE, name |-> "",
               amountOk |-> FALSE, amount |-> 0]] }

NextLive ==
  \/ \E t \in BidTasks : \E r \in LiveBidRequests : handleBidRecv(t, r)
  \/ \E t \in BidTasks : BidProgress(t)
  \/ \E q \in QueryTasks : QueryStep(q)
  \/ TimerStep

\* Scheduling assumptions. A goroutine that can run is eventually run (weak
\* fairness of every step of a handler or of the timer that is not the
\* arrival of a new request). The write lock is taken through a sync.Mutex,
\* whose starvation mode hands the mutex to a waiter that has waited long
\* enough, so a task that keeps competing for it eventually gets it (strong
\* fairness of the timer's acquisition). Requests may stop arriving at any
\* time: no fairness on the arrivals.
Fairness ==
  /\ \A t \in BidTasks : WF_vars(BidProgress(t))
  /\ \A q \in QueryTasks : WF_vars(QueryProgress(q))
  /\ WF_vars(TimerStep)
  /\ SF_vars(endAuctionLock)

FairSpec == Init /\ [][NextLive]_vars /\ Fairness

\* =============================================================== claims
CritPcs == {"checkEnded", "register", "compare", "setBid", "setBidder", "setMap", "unlock"}

\* The tasks that hold the write lock and are inside their critical section.
BidHolding(t) == pcB[t] \in CritPcs
TimerHolding == pcT \in {"set", "unlock"}
QueryHolding(q) == pcQ[q] \in {"rlocked", "runlock"}
NoWriterInside == (\A t \in BidTasks : ~BidHolding(t)) /\ ~TimerHolding

\* The bidders mapping of a rejected bid: the mapping met, with the bidder
\* entered with 0 when it was not in it.
Registered(m, n) == IF n \in DOMAIN m THEN m ELSE Put(m, n, 0)

\* ------------------------------------------------------------------- C1
\* C1: a well-formed bid on an Ongoing replica whose amount (the integer the
\* replica truncates it to) is not strictly greater than highestBid is
\* answered "fail" and leaves status, highestBid, highestBidder and the whole
\* bidders mapping as they were when the bid acquired the lock.
C1_RejectedLeavesAllState ==
  \A t \in BidTasks :
    (pcB[t] = "unlock" /\ pre.status = "ongoing"
       /\ Trunc(locB[t].amount) <= pre.highestBid)
      => (respB[t].outcome = "fail" /\ Snapshot = pre)

\* What the code does to such a bid: it answers "fail" and leaves status,
\* highestBid and highestBidder as they were, but lines 77-80 have entered
\* a bidder id that was not in the bidders mapping, with the value 0.
RejectedRegistersOnly ==
  \A t \in BidTasks :
    (pcB[t] = "unlock" /\ pre.status = "ongoing"
       /\ Trunc(locB[t].amount) <= pre.highestBid)
      => /\ respB[t] = [code |-> 200, outcome |-> "fail"]
         /\ status = pre.status
         /\ highestBid = pre.highestBid
         /\ highestBidder = pre.highestBidder
         /\ bidders = Registered(pre.bidders, locB[t].name)

\* ------------------------------------------------------------------- C2
\* C2: a bid that acquires the lock when status is "ended" is answered
\* "auction ended" whatever its amount and bidder, takes the early return of
\* line 74 and changes nothing of the auction value.
C2_EndedBidRefused ==
  \A t \in BidTasks :
    (BidHolding(t) /\ pre.status = "ended")
      => /\ Snapshot = pre
         /\ pcB[t] \in {"checkEnded", "unlock"}
         /\ (pcB[t] = "unlock" => respB[t] = [code |-> 200, outcome |-> "auction ended"])

\* A bid higher than highestBid by a bidder never seen has been refused on an
\* Ended replica.
C2_Witness ==
  \E t \in BidTasks :
    /\ pcB[t] = "unlock"
    /\ pre.status = "ended"
    /\ respB[t].outcome = "auction ended"
    /\ Trunc(locB[t].amount) > highestBid
    /\ locB[t].name \notin DOMAIN bidders

\* ------------------------------------------------------------------- C3
\* C3 (as stated): once the bids delivered so far have been handled,
\* highestBid is the largest amount among all the bids that were strictly
\* greater than the highestBid they met when they acquired the lock (0 if
\* there is none).
C3_FinalIsMaxOfAllHigherBids ==
  (\A t \in BidTasks : ~BidHolding(t)) => highestBid = maxWinAll

\* C3 (amended): once the bids delivered so far have been handled, highestBid
\* is the largest amount among the bids that acquired the lock while the
\* replica was Ongoing and were strictly greater than the highestBid they met
\* (0 if there is none); and a bid is answered "success" exactly when its
\* amount is strictly greater than the highestBid it met and the replica was
\* Ongoing. The amount of a bid is the wire number truncated to an integer.
C3_FinalIsMaxOfOngoingHigherBids ==
  /\ (\A t \in BidTasks : ~BidHolding(t)) => highestBid = maxWinOngoing
  /\ \A t \in BidTasks :
       pcB[t] = "unlock" =>
         (respB[t].outcome = "success"
            <=> (pre.status = "ongoing" /\ Trunc(locB[t].amount) > pre.highestBid))

\* Two bids have been accepted one after the other, the second is about to
\* return, and a bid with a lower amount is waiting for the lock.
C3_Witness ==
  \E t, u \in BidTasks :
    /\ t # u
    /\ pcB[t] = "unlock"
    /\ respB[t].outcome = "success"
    /\ pre.highestBid > 0
    /\ highestBid = MaxAmount
    /\ pcB[u] = "lock"
    /\ Trunc(locB[u].amount) < highestBid

\* ------------------------------------------------------------------- C4
\* What a step may do to highestBid and highestBidder.
C4_StepOk ==
  /\ status = "ongoing" => highestBid' >= highestBid
  /\ highestBid' # highestBid =>
       \E t \in BidTasks :
         /\ mutexW = BidTask(t)
         /\ pcB[t] = "setBid" /\ pcB'[t] = "setBidder"
         /\ status = "ongoing"
         /\ highestBid' = Trunc(locB[t].amount)
         /\ highestBid' > highestBid
  /\ highestBidder' # highestBidder =>
       \E t \in BidTasks :
         /\ mutexW = BidTask(t)
         /\ pcB[t] = "setBidder" /\ pcB'[t] = "setMap"
         /\ highestBidder' = locB[t].name
         /\ highestBid = Trunc(locB[t].amount)
  /\ \A t \in BidTasks :
       (pcB[t] = "setBid" /\ pcB'[t] # "setBid") => highestBid' > highestBid
  /\ \A t \in BidTasks :
       (pcB[t] = "setBidder" /\ pcB'[t] # "setBidder") => highestBidder' = locB[t].name

\* Outside the critical section of a bid, the pair is the initial pair or
\* the bidder and amount of one accepted bid, the last one of that bidder.
C4_PairOk ==
  (\A t \in BidTasks : ~BidHolding(t)) =>
     \/ highestBid = 0 /\ highestBidder = ""
     \/ /\ highestBidder \in DOMAIN lastOk
        /\ lastOk[highestBidder] = highestBid
        /\ highestBid > 0

\* C4: highestBid never decreases, it strictly increases in each accepted
\* bid, it is written only by the line-92 step of a bid that holds the lock
\* and was found higher, highestBidder only by the line-93 step of that same
\* bid, and outside a bid's critical section the two belong to one accepted
\* bid.
C4_BidAndBidderChangeTogether == [][C4_StepOk]_vars /\ []C4_PairOk

\* A second, higher bid by another bidder has been accepted on an Ongoing
\* replica.
C4_Witness ==
  /\ status = "ongoing"
  /\ \A t \in BidTasks : ~BidHolding(t)
  /\ highestBid = MaxAmount
  /\ DOMAIN lastOk = Names
  /\ \E n \in Names : lastOk[n] < highestBid

\* ------------------------------------------------------------------- C5
\* Lines 69-101 run without interruption on an auction value s: the value
\* they leave and the outcome they answer.
PlaceBid_ComparesOwnBid(s, name, amount) ==
  IF s.status = "ended"
    THEN [state |-> s, outcome |-> "auction ended"]
  ELSE IF Trunc(amount) <= Registered(s.bidders, name)[name]
    THEN [state |-> [s EXCEPT !.bidders = Registered(s.bidders, name)],
          outcome |-> "fail"]
  ELSE [state |-> [s EXCEPT !.highestBid = Trunc(amount),
                            !.highestBidder = name,
                            !.bidders = Put(s.bidders, name, Trunc(amount))],
        outcome |-> "success"]

PlaceBid(s, name, amount) ==
  IF s.status = "ended"
    THEN [state |-> s, outcome |-> "auction ended"]
  ELSE IF Trunc(amount) <= s.highestBid
    THEN [state |-> [s EXCEPT !.bidders = Registered(s.bidders, name)],
          outcome |-> "fail"]
  ELSE [state |-> [s EXCEPT !.highestBid = Trunc(amount),
                            !.highestBidder = name,
                            !.bidders = Put(s.bidders, name, Trunc(amount))],
        outcome |-> "success"]

\* C5: a bid that is about to release the lock has answered, and has left
\* the auction value, as the uninterrupted handler does on the value the bid
\* met when it acquired the lock; and whenever a query holds the read lock,
\* a bid starts its critical section or the timer is in its own, no (other)
\* bid is inside its critical section, so no task reads a half-written bid;
\* a query's response is the auction value at the time it is sent.
C5_Linearizable ==
  /\ \A t \in BidTasks :
       pcB[t] = "unlock" =>
         /\ Snapshot = PlaceBid(pre, locB[t].name, locB[t].amount).state
         /\ respB[t].outcome = PlaceBid(pre, locB[t].name, locB[t].amount).outcome
  /\ \A t \in BidTasks : pcB[t] = "checkEnded" => Snapshot = pre
  /\ \A q \in QueryTasks : QueryHolding(q) => \A t \in BidTasks : ~BidHolding(t)
  /\ TimerHolding => \A t \in BidTasks : ~BidHolding(t)
  /\ \A t, u \in BidTasks : (BidHolding(t) /\ BidHolding(u)) => t = u
  /\ \A q \in QueryTasks :
       pcQ[q] = "runlock" =>
         /\ respQ[q].status = status
         /\ respQ[q].highest_bid = highestBid
         /\ respQ[q].highest_bidder = highestBidder

\* A bid is accepted while another bid, a query and the timer, all of which
\* arrived before it finished, wait for the lock.
C5_Witness ==
  \E t, u \in BidTasks : \E q \in QueryTasks :
    /\ t # u
    /\ pcB[t] = "unlock"
    /\ respB[t].outcome = "success"
    /\ pre.highestBid > 0
    /\ pcB[u] = "lock"
    /\ pcQ[q] = "rlock"
    /\ pcT = "lock"

\* ------------------------------------------------------------------- C6
\* C6: at most one task is inside a write critical section (a bid handler or
\* the timer), and while one is, no query handler holds the read lock.
C6_WritersExclusive ==
  /\ \A t, u \in BidTasks : (BidHolding(t) /\ BidHolding(u)) => t = u
  /\ \A t \in BidTasks : BidHolding(t) => ~TimerHolding
  /\ \A q \in QueryTasks :
       QueryHolding(q) => (NoWriterInside /\ q \in readers)
  /\ ~NoWriterInside => readers = {}

\* Two queries hold the read lock together while a bid that has announced
\* itself waits for them to leave and the timer waits behind it.
C6_Witness ==
  /\ \A q \in QueryTasks : QueryHolding(q)
  /\ Cardinality(readers) >= 2
  /\ \E t \in BidTasks : pcB[t] = "lockwait"
  /\ pcT = "lock"

\* ------------------------------------------------------------------- C7
C7_StepOk ==
  status' # status =>
    /\ status = "ongoing"
    /\ status' = "ended"
    /\ pcT = "set" /\ pcT' = "unlock"
    /\ mutexW = TimerTask
    /\ UNCHANGED <<bidVars, queryVars>>

\* C7: status changes only from "ongoing" to "ended" (hence at most once and
\* never back), and the step that changes it is line 134 of the timer: no
\* step of a bid or query handler changes it.
C7_OnlyTimerEnds == [][C7_StepOk]_vars

\* The timer has ended the auction and a later bid has been handled without
\* reopening it.
C7_Witness ==
  /\ status = "ended"
  /\ pcT = "done"
  /\ \E t \in BidTasks : pcB[t] = "unlock" /\ Trunc(locB[t].amount) > highestBid

\* ------------------------------------------------------------------- C8
\* C8: under the scheduling assumptions of FairSpec, whatever requests keep
\* arriving, the timer wakes, acquires the write lock, sets status to
\* "ended" and terminates, and status stays "ended".
C8_EventuallyEnded == <>[](status = "ended" /\ pcT = "done")

\* The auction has ended while handlers were competing for the lock.
C8_Witness ==
  /\ status = "ended"
  /\ pcT = "done"
  /\ \E t \in BidTasks : pcB[t] = "lock"
  /\ \E q \in QueryTasks : pcQ[q] = "rlock"
  /\ mutexW # NoTask

\* ------------------------------------------------------------------- C9
\* C9: outside the critical section of a bid, every id in the bidders
\* mapping has placed a successful bid, and bidders[id] is the amount of the
\* last one.
C9_MapHoldsLastSuccessfulBid ==
  (\A t \in BidTasks : ~BidHolding(t)) =>
    \A id \in DOMAIN bidders : id \in DOMAIN lastOk /\ bidders[id] = lastOk[id]

\* What the code keeps: bidders[id] is the amount of the last successful bid
\* of id, or the 0 of lines 77-80 when id has bid on the replica but none of
\* its bids has been successful.
MapHoldsLastSuccessfulBidOrZero ==
  /\ \A id \in DOMAIN bidders :
       bidders[id] = (IF id \in DOMAIN lastOk THEN lastOk[id] ELSE 0)
  /\ DOMAIN lastOk \subseteq DOMAIN bidders
  /\ \A id \in DOMAIN lastOk : lastOk[id] > 0

\* ------------------------------------------------------------------ C10
C10_StepOk == status = "ended" => UNCHANGED auctionVars

C10_CloseIdempotent ==
  /\ CloseStep(CloseStep(Snapshot)) = CloseStep(Snapshot)
  /\ CloseStep(Snapshot).status = "ended"
  /\ CloseStep(Snapshot).highestBid = highestBid
  /\ CloseStep(Snapshot).highestBidder = highestBidder
  /\ CloseStep(Snapshot).bidders = bidders
  /\ status = "ended" => CloseStep(Snapshot) = Snapshot

\* C10: the close step applied to an Ended auction value leaves it as it is,
\* so applying it twice gives what applying it once gives, and it changes
\* nothing but status; and from a state with status "ended" no step of a
\* bid handler, a query handler or the timer changes status, highestBid,
\* highestBidder or bidders.
C10_EndedIsFrozen == [][C10_StepOk]_vars /\ []C10_CloseIdempotent

\* After the close, with a highest bid on record, a higher bid has been
\* handled and a query is being answered.
C10_Witness ==
  /\ status = "ended"
  /\ highestBid > 0
  /\ pcT = "done"
  /\ maxWinAll > highestBid
  /\ \E q \in QueryTasks : pcQ[q] = "runlock" /\ respQ[q].winner = highestBidder

\* ------------------------------------------------------------------ C11
\* One replica handling bids one after the other: each step is one whole
\* handleBid critical section (PlaceBid), or the timer's close.  A run is the
\* bids handled since SeqBegin; seqBase is highestBid at that moment.
SeqBid(name, amount) ==
  /\ Len(seqLog) < MaxSeqLen
  /\ UNCHANGED <<vars, coordVars>>
  /\ seqRep' = PlaceBid(seqRep, name, amount).state
  /\ seqLog' = Append(seqLog, [amount  |-> Trunc(amount),
                               status  |-> seqRep.status,
                               outcome |-> PlaceBid(seqRep, name, amount).outcome])
  /\ UNCHANGED seqBase

SeqBegin ==
  /\ seqLog # <<>>
  /\ UNCHANGED <<vars, coordVars>>
  /\ seqLog' = <<>>
  /\ seqBase' = seqRep.highestBid
  /\ UNCHANGED seqRep

SeqClose ==
  /\ seqRep.status = "ongoing"
  /\ UNCHANGED <<vars, coordVars>>
  /\ seqRep' = CloseStep(seqRep)
  /\ UNCHANGED <<seqBase, seqLog>>

SeqNext ==
  \/ \E name \in Names, amount \in WireAmounts : SeqBid(name, amount)
  \/ SeqBegin
  \/ SeqClose

SeqSpec == Init /\ [][SeqNext]_seqVars

SeqAllOngoing == \A i \in 1..Len(seqLog) : seqLog[i].status = "ongoing"

SeqIncreasing ==
  \A i \in 1..(Len(seqLog) - 1) : seqLog[i].amount < seqLog[i + 1].amount

SeqDecreasing ==
  \A i \in 1..(Len(seqLog) - 1) : seqLog[i].amount > seqLog[i + 1].amount

SeqAllSucceed == \A i \in 1..Len(seqLog) : seqLog[i].outcome = "success"

SeqOnlyFirstSucceeds ==
  \A i \in 1..Len(seqLog) :
    seqLog[i].outcome = (IF i = 1 THEN "success" ELSE "fail")

\* C11 as stated: on an ongoing replica, bids with strictly increasing amounts
\* delivered in increasing order all succeed, and delivered in decreasing
\* order only the first one succeeds, whatever the replica's highestBid was.
C11_OrderDecidesOutcomes ==
  (seqLog # <<>> /\ SeqAllOngoing) =>
    /\ SeqIncreasing => SeqAllSucceed
    /\ SeqDecreasing => SeqOnlyFirstSucceeds

\* C11: on an ongoing replica, when the first bid delivered is strictly
\* greater than the replica's highestBid, bids delivered in strictly
\* increasing order all succeed and, delivered in strictly decreasing order,
\* only the first one succeeds and every later one is answered "fail".
C11_OrderDecidesOutcomesAboveHighest ==
  (seqLog # <<>> /\ SeqAllOngoing /\ seqLog[1].amount > seqBase) =>
    /\ SeqIncreasing => SeqAllSucceed
    /\ SeqDecreasing => SeqOnlyFirstSucceeds
    /\ seqRep.highestBid =
         (IF SeqIncreasing THEN seqLog[Len(seqLog)].amount
          ELSE IF SeqDecreasing THEN seqLog[1].amount
          ELSE seqRep.highestBid)

\* Two bids handled in increasing order, the first above the highestBid the
\* run started from: both accepted, the second one now the highest.
C11_Witness ==
  /\ Len(seqLog) = 2
  /\ SeqAllOngoing
  /\ seqLog[1].amount > seqBase
  /\ seqLog[1].amount < seqLog[2].amount
  /\ SeqAllSucceed
  /\ seqRep.highestBid = seqLog[2].amount

\* ------------------------------------------------------------------ C12
\* C12: the response a query handler is about to send is the auction value
\* of that moment: its status, highest_bid and highest_bidder are the current
\* ones, highest_bidder is the bidder of the last accepted bid (the accepted
\* bid with the largest amount; the empty string when no bid was accepted),
\* the winner field is present exactly when the status is "ended" and then it
\* is highest_bidder, and the status is "ended" exactly when the timer has
\* fired.
C12_QueryIsConsistentSnapshot ==
  \A q \in QueryTasks :
    pcQ[q] = "runlock" =>
      /\ respQ[q].code = 200
      /\ respQ[q].status = status
      /\ respQ[q].highest_bid = highestBid
      /\ respQ[q].highest_bidder = highestBidder
      /\ respQ[q].hasWinner <=> respQ[q].status = "ended"
      /\ respQ[q].hasWinner => respQ[q].winner = respQ[q].highest_bidder
      /\ ~respQ[q].hasWinner => respQ[q].winner = ""
      /\ respQ[q].highest_bid = maxWinOngoing
      /\ respQ[q].highest_bid = 0 => respQ[q].highest_bidder = ""
      /\ respQ[q].highest_bid > 0 =>
           /\ respQ[q].highest_bidder \in DOMAIN lastOk
           /\ lastOk[respQ[q].highest_bidder] = respQ[q].highest_bid
      /\ respQ[q].status = "ended" <=> pcT = "done"
      /\ respQ[q].status = "ongoing" <=> pcT \in {"sleeping", "lock", "lockwait"}

\* After two accepted bids and the close, a query reports the second bidder
\* as the winner.
C12_Witness ==
  \E q \in QueryTasks :
    /\ pcQ[q] = "runlock"
    /\ respQ[q].status = "ended"
    /\ respQ[q].hasWinner
    /\ respQ[q].winner \in Names
    /\ respQ[q].highest_bid = MaxAmount
    /\ DOMAIN lastOk = Names

\* ------------------------------------------------------------------ C20
\* C20: a bid that acquires the lock after the timer has woken (the duration
\* has elapsed) and before the timer has acquired it meets status "ongoing"
\* and is accepted exactly when its amount is strictly greater than
\* highestBid; when accepted it sets highestBid and highestBidder.
C20_StatusAloneGatesBids ==
  /\ \A t \in BidTasks :
       (pcB[t] = "unlock" /\ late /\ pre.status = "ongoing") =>
         /\ respB[t].outcome = "success" <=> Trunc(locB[t].amount) > pre.highestBid
         /\ respB[t].outcome = "success" =>
              /\ highestBid = Trunc(locB[t].amount)
              /\ highestBidder = locB[t].name
              /\ lateWin
  /\ lateWin => (status = "ongoing" /\ pcT # "sleeping" /\ highestBid > 0)

\* A query reports status ongoing with time_remaining <= 0, and the highest
\* bid it reports was placed after the duration had elapsed.
C20_Witness ==
  \E q \in QueryTasks :
    /\ pcQ[q] = "runlock"
    /\ respQ[q].status = "ongoing"
    /\ respQ[q].time_remaining <= 0
    /\ respQ[q].highest_bid = highestBid
    /\ respQ[q].highest_bidder \in Names
    /\ lateWin
    /\ pcT = "lock"

\* =========================================================== coordinator
\* The coordinator of unnamed/part_000: one console loop that makes one call
\* at a time, bid or query, over the replicas of c.replicas in list order.
\* A replica handles a request it receives as one step (PlaceBid, or the
\* snapshot of handleQuery) and the coordinator learns the answer in a later
\* step, so that a replica's timer can fire in between.  What the network
\* does to a request is drawn from the outcomes net/http can report.

\* The amounts strconv.Atoi hands to bid.
BidAmounts == 0..MaxAmount

\* json.Marshal of the int amount, as the number the replica decodes.
Wire(amount) == amount * Denom

\* The JSON object handleBid answers a decoded bid with.
BidReply(outcome) ==
  IF outcome = "fail"
    THEN [outcome |-> "fail",
          reason |-> "bid must be higher than current highest bid"]
    ELSE [outcome |-> outcome]

\* Whole seconds since startTime that a replica in state s may read: up to
\* DurationSec while the timer sleeps, DurationSec and more from then on,
\* also while the timer has not yet set status.
RepElapsed(s) ==
  IF s.status = "ongoing" THEN {0, DurationSec, DurationSec + 1}
  ELSE {DurationSec, DurationSec + 1}

\* The JSON object handleQuery answers with, e whole seconds after the start.
QueryReply(s, e) ==
  IF s.status = "ended"
    THEN [status |-> s.status, highest_bid |-> s.highestBid,
          highest_bidder |-> s.highestBidder,
          time_remaining |-> DurationSec - e, winner |-> s.highestBidder]
    ELSE [status |-> s.status, highest_bid |-> s.highestBid,
          highest_bidder |-> s.highestBidder,
          time_remaining |-> DurationSec - e]

\* The ways client.Get, io.ReadAll and the status test fail.
QueryFailures == {"refused", "timeout", "unreadable", "badstatus"}

QueryError(kind) ==
  IF kind \in {"refused", "timeout"} THEN "failed to connect to replica"
  ELSE IF kind = "unreadable" THEN "failed to read response"
  ELSE "unexpected status code"

Event(msg, i, data) == [msg |-> msg, rep |-> i, data |-> data]
NoData == [none |-> TRUE]

Contact(i, result, outcome, hb) ==
  [rep |-> i, result |-> result, outcome |-> outcome, hb |-> hb]

\* A request handled by the replica: what the replica answered, and the
\* highestBid it met.
Handled(outcome, hb, body) ==
  [state |-> "handled", outcome |-> outcome, hb |-> hb, body |-> body]

\* ------------------------------------------------------- Coordinator.bid
\* main lines 132-140 and bid lines 23-24: the console hands name and amount
\* to bid, which marshals the body once.
bidCall(name, amount) ==
  /\ pcC = "idle"
  /\ UNCHANGED <<vars, seqVars>>
  /\ pcC' = "bid"
  /\ idx' = 1
  /\ cur' = [kind |-> "bid", name |-> name, amount |-> amount]
  /\ clog' = <<Event("Placing bid", 0, NoData)>>
  /\ trace' = <<>>
  /\ UNCHANGED <<reps, flight, everFailed, split>>

\* Line 27, first half: the request of http.Post reaches replica idx, whose
\* handleBid handles it (main.go 41-102) and writes its answer, while the
\* coordinator is still inside Post.
replicaHandleBid ==
  /\ pcC = "bid"
  /\ UNCHANGED <<vars, seqVars>>
  /\ idx <= NumReplicas
  /\ flight.state = "none"
  /\ LET r == PlaceBid(reps[idx], cur.name, Wire(cur.amount))
     IN /\ reps' = [reps EXCEPT ![idx] = r.state]
        /\ flight' = Handled(r.outcome, reps[idx].highestBid, BidReply(r.outcome))
  /\ UNCHANGED <<pcC, idx, cur, clog, trace, everFailed, split>>

\* Lines 27-31: http.Post returns an error, either before the replica got
\* the request or after it handled it; the error is logged and the loop
\* goes on.
bidPostFails_Aborts(processed) ==
  /\ pcC = "bid"
  /\ UNCHANGED <<vars, seqVars>>
  /\ idx <= NumReplicas
  /\ processed = (flight.state = "handled")
  /\ clog' = Append(clog, Event("Error sending bid", idx, NoData))
  /\ trace' = Append(trace, Contact(idx, IF processed THEN "lost" ELSE "refused", "",
                                    IF processed THEN flight.hb
                                    ELSE reps[idx].highestBid))
  /\ idx' = NumReplicas + 1
  /\ flight' = NoFlight
  /\ everFailed' = TRUE
  /\ UNCHANGED <<reps, pcC, cur, split>>

bidPostFails(processed) ==
  /\ pcC = "bid"
  /\ UNCHANGED <<vars, seqVars>>
  /\ idx <= NumReplicas
  /\ processed = (flight.state = "handled")
  /\ clog' = Append(clog, Event("Error sending bid", idx, NoData))
  /\ trace' = Append(trace, Contact(idx, IF processed THEN "lost" ELSE "refused", "",
                                    IF processed THEN flight.hb
                                    ELSE reps[idx].highestBid))
  /\ idx' = idx + 1
  /\ flight' = NoFlight
  /\ everFailed' = TRUE
  /\ UNCHANGED <<reps, pcC, cur, split>>

\* Lines 27, 34-38: the replica handled the bid, the body that arrives does
\* not decode; the error is logged and the loop goes on.
bidDecodeFails ==
  /\ pcC = "bid"
  /\ UNCHANGED <<vars, seqVars>>
  /\ idx <= NumReplicas
  /\ flight.state = "handled"
  /\ clog' = Append(clog, Event("Error decoding response", idx, NoData))
  /\ trace' = Append(trace, Contact(idx, "undecodable", "", flight.hb))
  /\ idx' = idx + 1
  /\ flight' = NoFlight
  /\ everFailed' = TRUE
  /\ UNCHANGED <<reps, pcC, cur, split>>

\* One contact of the call was answered "fail" and another "success", when
\* this contact is answered a.
Splits(a) ==
  \E k \in 1..Len(trace) :
    \/ trace[k].outcome = "fail" /\ a = "success"
    \/ trace[k].outcome = "success" /\ a = "fail"

\* Lines 27, 34-42: the answer the replica wrote arrives and decodes.  The
\* event of line 41 is written when the "reason" member of the answer is the
\* string "fail".
bidAnswered_Syncs ==
  /\ pcC = "bid"
  /\ UNCHANGED <<vars, seqVars>>
  /\ idx <= NumReplicas
  /\ flight.state = "handled"
  /\ LET response == flight.body
     IN /\ clog' = IF "reason" \in DOMAIN response /\ response.reason = "fail"
                     THEN Append(clog, Event("returned failure", idx, response))
                     ELSE clog
        /\ trace' = Append(trace, Contact(idx, "ok", flight.outcome, flight.hb))
        /\ split' = (split \/ Splits(flight.outcome))
  /\ reps' = IF flight.outcome = "success"
               THEN [i \in Replicas |-> reps[idx]]
               ELSE reps
  /\ idx' = idx + 1
  /\ flight' = NoFlight
  /\ UNCHANGED <<pcC, cur, everFailed>>

bidAnswered_FirstOnly ==
  /\ pcC = "bid"
  /\ UNCHANGED <<vars, seqVars>>
  /\ idx <= NumReplicas
  /\ flight.state = "handled"
  /\ LET response == flight.body
     IN /\ clog' = IF "reason" \in DOMAIN response /\ response.reason = "fail"
                     THEN Append(clog, Event("returned failure", idx, response))
                     ELSE clog
        /\ trace' = Append(trace, Contact(idx, "ok", flight.outcome, flight.hb))
        /\ split' = (split \/ Splits(flight.outcome))
  /\ idx' = NumReplicas + 1
  /\ flight' = NoFlight
  /\ UNCHANGED <<reps, pcC, cur, everFailed>>

bidAnswered ==
  /\ pcC = "bid"
  /\ UNCHANGED <<vars, seqVars>>
  /\ idx <= NumReplicas
  /\ flight.state = "handled"
  /\ LET response == flight.body
     IN /\ clog' = IF "reason" \in DOMAIN response /\ response.reason = "fail"
                     THEN Append(clog, Event("returned failure", idx, response))
                     ELSE clog
        /\ trace' = Append(trace, Contact(idx, "ok", flight.outcome, flight.hb))
        /\ split' = (split \/ Splits(flight.outcome))
  /\ idx' = idx + 1
  /\ flight' = NoFlight
  /\ UNCHANGED <<reps, pcC, cur, everFailed>>

\* Line 27: http.Post uses http.DefaultClient, which has no timeout: when
\* the connection is taken and no answer ever arrives, whether the replica
\* handled the bid or not, Post never returns.
bidPostHangs ==
  /\ pcC = "bid"
  /\ UNCHANGED <<vars, seqVars>>
  /\ idx <= NumReplicas
  /\ pcC' = "blocked"
  /\ trace' = Append(trace, Contact(idx, "hang", "",
                                    IF flight.state = "handled" THEN flight.hb
                                    ELSE reps[idx].highestBid))
  /\ everFailed' = TRUE
  /\ UNCHANGED <<reps, idx, cur, clog, flight, split>>

\* Line 44: the range loop is over.
bidCompleted ==
  /\ pcC = "bid"
  /\ UNCHANGED <<vars, seqVars>>
  /\ idx = NumReplicas + 1
  /\ clog' = Append(clog, Event("Bid request completed", 0, NoData))
  /\ pcC' = "idle"
  /\ UNCHANGED <<reps, idx, cur, trace, flight, everFailed, split>>

\* ----------------------------------------------------- Coordinator.query
\* main lines 144-145.
queryCall ==
  /\ pcC = "idle"
  /\ UNCHANGED <<vars, seqVars>>
  /\ pcC' = "query"
  /\ idx' = 1
  /\ cur' = [kind |-> "query", name |-> "", amount |-> 0]
  /\ clog' = <<Event("Querying auction status...", 0, NoData)>>
  /\ trace' = <<>>
  /\ UNCHANGED <<reps, flight, everFailed, split>>

\* queryFromReplica line 66, first half: the request of client.Get reaches
\* replica idx, whose handleQuery (main.go 104-128) writes its answer, e
\* whole seconds after the replica started, while the coordinator is still
\* inside Get.
replicaHandleQuery(e) ==
  /\ pcC = "query"
  /\ UNCHANGED <<vars, seqVars>>
  /\ idx <= NumReplicas
  /\ flight.state = "none"
  /\ e \in RepElapsed(reps[idx])
  /\ flight' = Handled("", reps[idx].highestBid, QueryReply(reps[idx], e))
  /\ UNCHANGED <<reps, pcC, idx, cur, clog, trace, everFailed, split>>

\* A connection that is refused, or answered by something that is not the
\* replica's handler, leaves the replica's handler out; a body that cannot
\* be read was being written by it; the timeout can strike before or after.
FailsWhen(kind) ==
  IF kind \in {"refused", "badstatus"} THEN {"none"}
  ELSE IF kind = "unreadable" THEN {"handled"}
  ELSE {"none", "handled"}

\* query lines 50-53 with queryFromReplica lines 63-79: the Get fails or runs
\* into the 2 s timeout of the client, the body cannot be read, or the status
\* is not 200; the error is logged and the loop goes on.
queryFromReplicaFails_NoTimeout(kind) ==
  /\ pcC = "query"
  /\ UNCHANGED <<vars, seqVars>>
  /\ idx <= NumReplicas
  /\ flight.state \in FailsWhen(kind)
  /\ clog' = IF kind = "timeout" THEN clog
             ELSE Append(clog, Event("Error querying replica", idx,
                                     [error |-> QueryError(kind)]))
  /\ trace' = Append(trace, Contact(idx, kind, "", reps[idx].highestBid))
  /\ idx' = IF kind = "timeout" THEN idx ELSE idx + 1
  /\ pcC' = IF kind = "timeout" THEN "blocked" ELSE pcC
  /\ flight' = NoFlight
  /\ UNCHANGED <<reps, cur, everFailed, split>>

queryFromReplicaFails_GivesUp(kind) ==
  /\ pcC = "query"
  /\ UNCHANGED <<vars, seqVars>>
  /\ idx <= NumReplicas
  /\ flight.state \in FailsWhen(kind)
  /\ clog' = Append(clog, Event("Error querying replica", idx,
                                [error |-> QueryError(kind)]))
  /\ trace' = Append(trace, Contact(idx, kind, "", reps[idx].highestBid))
  /\ idx' = NumReplicas + 1
  /\ flight' = NoFlight
  /\ UNCHANGED <<reps, pcC, cur, everFailed, split>>

queryFromReplicaFails(kind) ==
  /\ pcC = "query"
  /\ UNCHANGED <<vars, seqVars>>
  /\ idx <= NumReplicas
  /\ flight.state \in FailsWhen(kind)
  /\ clog' = Append(clog, Event("Error querying replica", idx,
                                [error |-> QueryError(kind)]))
  /\ trace' = Append(trace, Contact(idx, kind, "", reps[idx].highestBid))
  /\ idx' = idx + 1
  /\ flight' = NoFlight
  /\ UNCHANGED <<reps, pcC, cur, everFailed, split>>

\* query lines 50, 55-56 with queryFromReplica lines 66-80: the answer the
\* replica wrote arrives with status 200 and its body is read; it is logged
\* as it is and query returns.
queryAnswered_KeepsGoing ==
  /\ pcC = "query"
  /\ UNCHANGED <<vars, seqVars>>
  /\ idx <= NumReplicas
  /\ flight.state = "handled"
  /\ clog' = Append(clog, Event("Data from replica", idx, flight.body))
  /\ trace' = Append(trace, Contact(idx, "ok", "", flight.hb))
  /\ pcC' = IF idx = NumReplicas THEN "idle" ELSE pcC
  /\ idx' = idx + 1
  /\ flight' = NoFlight
  /\ UNCHANGED <<reps, cur, everFailed, split>>

queryAnswered ==
  /\ pcC = "query"
  /\ UNCHANGED <<vars, seqVars>>
  /\ idx <= NumReplicas
  /\ flight.state = "handled"
  /\ clog' = Append(clog, Event("Data from replica", idx, flight.body))
  /\ trace' = Append(trace, Contact(idx, "ok", "", flight.hb))
  /\ pcC' = "idle"
  /\ flight' = NoFlight
  /\ UNCHANGED <<reps, idx, cur, everFailed, split>>

\* query line 58: the range loop ended without a return.
queryAllFailed ==
  /\ pcC = "query"
  /\ UNCHANGED <<vars, seqVars>>
  /\ idx = NumReplicas + 1
  /\ clog' = Append(clog, Event("Failed to query all replicas", 0, NoData))
  /\ pcC' = "idle"
  /\ UNCHANGED <<reps, idx, cur, trace, flight, everFailed, split>>

\* ------------------------------------------------- the replicas' timers
\* main.go endAuction of replica i, as one step.
replicaEndAuction(i) ==
  /\ reps[i].status = "ongoing"
  /\ UNCHANGED <<vars, seqVars>>
  /\ reps' = [reps EXCEPT ![i] = CloseStep(reps[i])]
  /\ UNCHANGED <<pcC, idx, cur, clog, trace, flight, everFailed, split>>

\* The steps of a call after it was made.
CoordProgress ==
  \/ replicaHandleBid
  \/ \E processed \in BOOLEAN : bidPostFails(processed)
  \/ bidDecodeFails
  \/ bidAnswered
  \/ bidPostHangs
  \/ bidCompleted
  \/ \E e \in {0, DurationSec, DurationSec + 1} : replicaHandleQuery(e)
  \/ \E kind \in QueryFailures : queryFromReplicaFails(kind)
  \/ queryAnswered
  \/ queryAllFailed

CoordNext ==
  \/ \E name \in Names, amount \in BidAmounts : bidCall(name, amount)
  \/ queryCall
  \/ CoordProgress
  \/ \E i \in Replicas : replicaEndAuction(i)

CoordSpec == Init /\ [][CoordNext]_coordVars

\* A call that can take a step takes one: the console loop is a running
\* process.  New calls and the timers carry no fairness.
FairCoordSpec == Init /\ [][CoordNext]_coordVars /\ WF_coordVars(CoordProgress)

\* ------------------------------------------------- coordinator claims
Last(q) == q[Len(q)]

\* The events of the call that carry message msg.
Events(msg) == {k \in 1..Len(clog) : clog[k].msg = msg}

\* The events of the call that carry message msg about replica i.
EventsOf(msg, i) == {k \in Events(msg) : clog[k].rep = i}

\* A call of this kind has returned to the console loop.
Returned(kind) == pcC = "idle" /\ cur.kind = kind

\* ------------------------------------------------------------------ C13
\* The answer a replica writes to a query is handleQuery's, of its state at
\* that step; the step that ends a query with data logs that answer as it
\* was written.
C13_StepOk ==
  /\ (pcC = "query" /\ flight.state = "none" /\ flight'.state = "handled")
       => /\ flight'.body \in {QueryReply(reps[idx], e) : e \in RepElapsed(reps[idx])}
          /\ flight'.hb = reps[idx].highestBid
          /\ UNCHANGED <<reps, clog, trace, idx, pcC>>
  /\ (pcC = "query" /\ Events("Data from replica") = {}
        /\ Events("Data from replica")' # {})
       => /\ pcC' = "idle"
          /\ flight.state = "handled"
          /\ Last(clog') = Event("Data from replica", idx, flight.body)
          /\ Last(trace') = Contact(idx, "ok", "", flight.hb)

C13_InOrder ==
  cur.kind = "query" =>
    /\ \A k \in 1..Len(trace) : trace[k].rep = k
    /\ \A k \in 1..(Len(trace) - 1) : trace[k].result \in QueryFailures
    /\ pcC = "query" => /\ Len(trace) = idx - 1
                        /\ \A k \in 1..Len(trace) : trace[k].result \in QueryFailures
    /\ \A k \in 1..Len(trace) :
         trace[k].result = "ok" =>
           /\ pcC = "idle"
           /\ k = Len(trace)
           /\ Last(clog).msg = "Data from replica"
           /\ Last(clog).rep = k
           /\ Last(clog).data.highest_bid = trace[k].hb
           /\ Cardinality(Events("Data from replica")) = 1

\* C13: Coordinator.query contacts the replicas in list order, replica i only
\* after every replica before it has failed; the first replica that answers
\* 200 with a readable body ends the call, its body is what the call yields
\* (the "Data from replica" event), unchanged, and no later replica is
\* contacted in that call.
C13_QueryFirstSuccessInOrder == [][C13_StepOk]_coordVars /\ []C13_InOrder

\* replica[0] failed, replica[1] answered: the call ended with its data.
C13_Witness ==
  /\ Returned("query")
  /\ Len(trace) = 2
  /\ trace[1].result = "refused"
  /\ trace[2].result = "ok"
  /\ Last(clog).msg = "Data from replica"
  /\ Last(clog).rep = 2
  /\ Last(clog).data.highest_bid = MaxAmount

\* ------------------------------------------------------------------ C14
\* C14: a query call yields "Failed to query all replicas" exactly when
\* every replica of the list failed in that call; when a replica answered
\* there is no such event, and in the total-failure case the call yields no
\* auction data.
C14_TotalFailureIffAllFailed ==
  /\ pcC = "query" => Events("Failed to query all replicas") = {}
  /\ Returned("query") =>
       LET allFailed == /\ Len(trace) = NumReplicas
                        /\ \A k \in 1..Len(trace) :
                             trace[k].rep = k /\ trace[k].result \in QueryFailures
       IN /\ (Events("Failed to query all replicas") # {}) <=> allFailed
          /\ allFailed => /\ Events("Data from replica") = {}
                          /\ Last(clog) = Event("Failed to query all replicas", 0, NoData)
                          /\ \A i \in Replicas :
                               Cardinality(EventsOf("Error querying replica", i)) = 1
          /\ ~allFailed => /\ Events("Data from replica") # {}
                           /\ Last(trace).result = "ok"

\* Both replicas failed, one by timeout and one by refusing the connection.
C14_Witness ==
  /\ Returned("query")
  /\ Len(trace) = NumReplicas
  /\ trace[1].result = "timeout"
  /\ trace[2].result = "refused"
  /\ Last(clog).msg = "Failed to query all replicas"
  /\ \E i \in Replicas : reps[i].highestBid > 0

\* ------------------------------------------------------------------ C15
\* C15: a bid call sends the bid to every replica of the list exactly once,
\* in list order; a Post error or a decode error at a replica is logged and
\* the loop goes on with the next replica; a rejection stops nothing; the
\* call ends with "Bid request completed" and yields nothing else.
C15_BidReachesEveryReplicaOnce ==
  cur.kind = "bid" =>
    /\ \A k \in 1..Len(trace) : trace[k].rep = k
    /\ pcC = "bid" => Len(trace) = idx - 1
    /\ pcC = "idle" =>
         /\ Len(trace) = NumReplicas
         /\ Last(clog) = Event("Bid request completed", 0, NoData)
         /\ Cardinality(Events("Bid request completed")) = 1
    /\ \A k \in 1..Len(trace) :
         /\ Cardinality(EventsOf("Error sending bid", k)) =
              (IF trace[k].result \in {"refused", "lost"} THEN 1 ELSE 0)
         /\ Cardinality(EventsOf("Error decoding response", k)) =
              (IF trace[k].result = "undecodable" THEN 1 ELSE 0)

\* The first replica refused the connection, the second one got the bid and
\* accepted it, and the call returned.
C15_Witness ==
  /\ Returned("bid")
  /\ trace[1].result = "refused"
  /\ trace[2].result = "ok"
  /\ trace[2].outcome = "success"
  /\ reps[2].highestBid = cur.amount
  /\ reps[1].highestBid < cur.amount

\* ------------------------------------------------------------------ C16
\* C16 as stated: every bid call and every query call eventually returns,
\* whatever the replicas do.
C16_EveryCallReturns == (pcC # "idle") ~> (pcC = "idle")

C16_BlockedOnlyInPost ==
  pcC = "blocked" => (cur.kind = "bid" /\ Last(trace).result = "hang")

C16_BlockedStays == pcC = "blocked" => pcC' = "blocked"

\* C16: every query call eventually returns (a replica that never answers
\* costs the 2 s timeout of the client); a bid call eventually returns
\* unless a replica takes the request and never answers, in which case the
\* call stays in http.Post, which has no timeout, for ever.
C16_CallsReturnUnlessPostHangs ==
  /\ (pcC = "query") ~> (pcC = "idle")
  /\ (pcC = "bid") ~> (pcC \in {"idle", "blocked"})
  /\ []C16_BlockedOnlyInPost
  /\ [][C16_BlockedStays]_coordVars

\* A query that met a replica that never answered, and has returned.
C16_Witness ==
  /\ Returned("query")
  /\ \E k \in 1..Len(trace) : trace[k].result = "timeout"
  /\ Last(trace).result = "ok"

C17_StepOk ==
  \A i \in Replicas :
    \/ reps'[i] = reps[i]
    \/ reps'[i] = CloseStep(reps[i])
    \/ /\ pcC = "bid"
       /\ i = idx
       /\ reps'[i] = PlaceBid(reps[i], cur.name, Wire(cur.amount)).state
       /\ \A j \in Replicas \ {i} : reps'[j] = reps[j]

C17_SplitCall ==
  cur.kind = "bid" =>
    \A a, b \in 1..Len(trace) :
      (trace[a].outcome = "fail" /\ trace[b].outcome = "success") =>
        /\ split
        /\ trace[a].hb >= cur.amount
        /\ trace[b].hb < cur.amount
        /\ reps[a].highestBid = trace[a].hb
        /\ reps[b].highestBid = cur.amount
        /\ reps[b].highestBidder = cur.name
        /\ (reps[a].highestBid # reps[b].highestBid) <=> (trace[a].hb > cur.amount)
        /\ pcC \in {"bid", "idle"}
        /\ Events("Error sending bid") = {}
        /\ Events("Error decoding response") = {}

C18_RejectionIsLogged ==
  cur.kind = "bid" =>
    \A k \in 1..Len(trace) :
      (trace[k].result = "ok" /\ trace[k].outcome = "fail")
        <=> EventsOf("returned failure", trace[k].rep) # {}

\* ------------------------------------------------------------------ C19
\* The replicas that have handled the bid of the call in progress.
C19_Ahead(i) == i < idx \/ (i = idx /\ flight.state = "handled")

\* C19: as long as every bid was answered and all replicas are ongoing, the
\* replicas hold the same highestBid and highestBidder whenever no bid call
\* is in progress; inside a call they differ at most between two replicas of
\* the loop, the ones already contacted being ahead by this one bid.
C19_ReplicasAgreeBetweenCalls ==
  (~everFailed /\ \A i \in Replicas : reps[i].status = "ongoing") =>
    /\ pcC = "idle" =>
         \A i, j \in Replicas :
           /\ reps[i].highestBid = reps[j].highestBid
           /\ reps[i].highestBidder = reps[j].highestBidder
    /\ pcC = "bid" =>
         /\ \A i, j \in Replicas :
              C19_Ahead(i) = C19_Ahead(j) => reps[i] = reps[j]
         /\ \A i, j \in Replicas :
              (C19_Ahead(i) /\ ~C19_Ahead(j)) =>
                reps[i] = PlaceBid(reps[j], cur.name, Wire(cur.amount)).state

\* Several calls by both bidders, all answered, the last one accepted by
\* both replicas, which agree on the highest amount.
C19_Witness ==
  /\ Returned("bid")
  /\ ~everFailed
  /\ \A i \in Replicas : reps[i].status = "ongoing"
  /\ \A k \in 1..Len(trace) : trace[k].outcome = "success"
  /\ Len(trace) = NumReplicas
  /\ reps[1].highestBid = MaxAmount
  /\ reps[2].highestBid = MaxAmount
  /\ DOMAIN reps[1].bidders = Names
  /\ \A n \in Names : reps[1].bidders[n] > 0

====
